---------------------------- MODULE Spec2Model ----------------------------
(***************************************************************************)
(* Model of the notebooks of the Quantum-Computing-Course repository:      *)
(* the circuit builders (bit shift, QFT / inverse QFT, Bernstein-Vazirani  *)
(* oracle and algorithm), the circuits they emit, and the outcome of       *)
(* executing those circuits.                                               *)
(*                                                                         *)
(* A Python string is a sequence of one-character strings.  A circuit is   *)
(* a record [nq, nc, ops]: number of qubits, number of classical bits and  *)
(* the ordered gate applications.  A gate application is a record          *)
(* [g, q, p]: gate name, qubit indices in call order (for "measure":       *)
(* <<qubit, clbit>>) and the parameter, <<>> or <<sgn, den>> for the       *)
(* angle sgn * pi / 2^den.                                                 *)
(*                                                                         *)
(* Amplitudes are exact: an amplitude is an element of Z[zeta], zeta =     *)
(* exp(i*pi/PhaseDim), written as the sequence of its PhaseDim integer     *)
(* coefficients on 1, zeta, ..., zeta^(PhaseDim-1) (zeta^PhaseDim = -1).   *)
(* Hadamard is applied without its 1/sqrt(2) factor, which scales the      *)
(* whole state by a positive real and changes no outcome's possibility.    *)
(***************************************************************************)
EXTENDS Integers, Sequences, FiniteSets, TLC

VARIABLES
    pc,             \* position of the running notebook code
    qc,             \* the circuit being built
    err,            \* the exception raised, "" when none
    result,         \* job.result(): the sampled counts, {} before the run
    counts,         \* the counts mapping returned / read, {} before
    input_bits,     \* Binary Shift: argument input_bits
    direction,      \* Binary Shift: argument direction
    shown,          \* Binary Shift: the string max() selects for display
    n,              \* QFT: argument n
    input_state,    \* QFT: the basis input prepared before apply_qft
    calls,          \* QFT: per builder call, the span of qc.ops it emitted
    i,              \* loop variable i
    j,              \* loop variable j
    secret_string,  \* Bernstein-Vazirani: argument secret_string
    oracle,         \* Bernstein-Vazirani: the circuit built by create_oracle
    query,          \* Bernstein-Vazirani: classical queries made to the oracle
    alice_bits,     \* BB84: Alice's random bits
    alice_bases,    \* BB84: Alice's random bases
    bob_bases,      \* BB84: Bob's random bases
    qubits,         \* BB84: the list of circuits encode_qubits returns
    bob_bits,       \* BB84: the measurements measure_qubits collects
    sifted_key,     \* BB84: the list sift_key returns
    est_shots,      \* QKNN: argument shots of estimate_distance
    prob_0,         \* QKNN: prob_0, the fraction <<numerator, denominator>>
    distance_squared, \* QKNN: distance_squared, a fraction as prob_0
    distance,       \* QKNN: the returned distance, in units of 1/Resolution
    state,          \* QPE: argument state of apply_qpe
    theta           \* QPE: the angle of phase_shift_unitary, <<sgn, den>>

vars == <<pc, qc, err, result, counts, input_bits, direction, shown, n, input_state,
          calls, i, j, secret_string, oracle, query,
          alice_bits, alice_bases, bob_bases, qubits, bob_bits, sifted_key,
          est_shots, prob_0, distance_squared, distance, state, theta>>

shiftVars == <<input_bits, direction, shown>>
qftVars == <<n, input_state, calls>>
bvVars == <<secret_string, oracle, query>>
bb84Vars == <<alice_bits, alice_bases, bob_bases, qubits, bob_bits, sifted_key>>
qknnVars == <<est_shots, prob_0, distance_squared, distance>>
qpeVars == <<state, theta>>

-----------------------------------------------------------------------------
(* Bounds *)

MaxInputLen == 5
MaxN == 3
MaxSecretLen == 3
MaxKeyLength == 2
MaxShots == 8
MaxExcess == 2
Resolution == 1000
MaxStateLen == 2
QpeShots == 2

(* Program constants *)

Width == 4
DefaultShots == 1024
BVShots == 1

-----------------------------------------------------------------------------
(* Python helpers *)

ReversedForgotten(s) == s

Reversed(s) == [k \in 1..Len(s) |-> s[Len(s) + 1 - k]]

Min(S) == CHOOSE m \in S : \A k \in S : m <= k

StringsUpTo(alphabet, len) == UNION {[1..l -> alphabet] : l \in 0..len}

EmptyCircuit == [nq |-> 0, nc |-> 0, ops |-> <<>>]

QuantumCircuit(nq, nc) == [nq |-> nq, nc |-> nc, ops |-> <<>>]

Gate(g, q) == [g |-> g, q |-> q, p |-> <<>>]

CPGate(sgn, den, ctl, tgt) == [g |-> "cp", q |-> <<ctl, tgt>>, p |-> <<sgn, den>>]

NoQuery == [x |-> 0 - 1, out |-> 0 - 1]

\* the variables of a notebook that is not the one running
IdleShift == input_bits = <<>> /\ direction = "" /\ shown = <<>>

IdleQFT == n = 0 /\ input_state = <<>> /\ calls = <<>>

IdleBV == secret_string = <<>> /\ oracle = EmptyCircuit /\ query = NoQuery

IdleBB84 ==
    /\ alice_bits = <<>> /\ alice_bases = <<>> /\ bob_bases = <<>>
    /\ qubits = <<>> /\ bob_bits = <<>> /\ sifted_key = <<>>

IdleQKNN ==
    /\ est_shots = 0 /\ prob_0 = <<0, 1>> /\ distance_squared = <<0, 1>> /\ distance = 0

IdleQPE == state = <<>> /\ theta = <<0, 0>>

AppendOps(c, gs) == [c EXCEPT !.ops = @ \o gs]

-----------------------------------------------------------------------------
(* Exact amplitudes in Z[zeta] *)

PhaseDim == 2 ^ (MaxN - 1)

AmpZero == [k \in 1..PhaseDim |-> 0]

AmpOne == [k \in 1..PhaseDim |-> IF k = 1 THEN 1 ELSE 0]

AmpAdd(a, b) == [k \in 1..PhaseDim |-> a[k] + b[k]]

AmpSub(a, b) == [k \in 1..PhaseDim |-> a[k] - b[k]]

\* a * zeta^e, for e in 0 .. 2*PhaseDim-1
AmpMulZeta(a, e) ==
    [k \in 1..PhaseDim |->
        LET s == ((k - 1) - e + 2 * PhaseDim) % PhaseDim
            t == s + e
        IN  IF (t \div PhaseDim) % 2 = 0 THEN a[s + 1] ELSE 0 - a[s + 1]]

\* the exponent e with exp(i * sgn * pi / 2^den) = zeta^e
PhaseExp(sgn, den) ==
    (sgn * (PhaseDim \div (2 ^ den)) + 2 * PhaseDim) % (2 * PhaseDim)

-----------------------------------------------------------------------------
(* Execution of a circuit: the state vector and the outcomes it can yield *)

Bit(b, k) == (b \div (2 ^ k)) % 2

Flip(b, k) == IF Bit(b, k) = 0 THEN b + 2 ^ k ELSE b - 2 ^ k

SwapBits(b, k, l) == IF Bit(b, k) = Bit(b, l) THEN b ELSE Flip(Flip(b, k), l)

Basis(nq) == 0..(2 ^ nq - 1)

BasisState(nq, idx) == [b \in Basis(nq) |-> IF b = idx THEN AmpOne ELSE AmpZero]

ApplyGate(psi, gate) ==
    LET S == DOMAIN psi
        q == gate.q
    IN  CASE gate.g = "x" ->
                [b \in S |-> psi[Flip(b, q[1])]]
          [] gate.g = "h" ->
                [b \in S |-> IF Bit(b, q[1]) = 0
                                THEN AmpAdd(psi[b], psi[Flip(b, q[1])])
                                ELSE AmpSub(psi[Flip(b, q[1])], psi[b])]
          [] gate.g = "cx" ->
                [b \in S |-> IF Bit(b, q[1]) = 1 THEN psi[Flip(b, q[2])] ELSE psi[b]]
          [] gate.g = "swap" ->
                [b \in S |-> psi[SwapBits(b, q[1], q[2])]]
          [] gate.g = "cp" ->
                [b \in S |-> IF Bit(b, q[1]) = 1 /\ Bit(b, q[2]) = 1
                                THEN AmpMulZeta(psi[b], PhaseExp(gate.p[1], gate.p[2]))
                                ELSE psi[b]]
          [] gate.g = "unitary" ->
                [b \in S |-> IF Bit(b, q[2]) = 1
                                THEN AmpMulZeta(psi[b], PhaseExp(gate.p[1], gate.p[2]))
                                ELSE psi[b]]
          [] OTHER -> psi

RECURSIVE ApplyOps(_, _, _)
ApplyOps(psi, ops, k) ==
    IF k > Len(ops) THEN psi ELSE ApplyOps(ApplyGate(psi, ops[k]), ops, k + 1)

\* the state the gates of circuit c leave, started on basis state idx
FinalStateFrom(c, idx) == ApplyOps(BasisState(c.nq, idx), c.ops, 1)

FinalState(c) == FinalStateFrom(c, 0)

Support(psi) == {b \in DOMAIN psi : psi[b] # AmpZero}

\* the qubit whose measurement classical bit cb holds, -1 when none
MeasuredInto(c, cb) ==
    LET at == {k \in 1..Len(c.ops) : c.ops[k].g = "measure" /\ c.ops[k].q[2] = cb}
    IN  IF at = {} THEN 0 - 1
        ELSE c.ops[CHOOSE k \in at : \A l \in at : l <= k].q[1]

\* the outcome string of basis state b: classical bit nc-1 first
Key(c, b) ==
    [k \in 1..c.nc |->
        LET m == MeasuredInto(c, c.nc - k)
        IN  IF m >= 0 /\ Bit(b, m) = 1 THEN "1" ELSE "0"]

Outcomes(c) == {Key(c, b) : b \in Support(FinalState(c))}

\* the mappings {outcome: count} with positive counts over K adding up to shots
RECURSIVE Tallies(_, _)
Tallies(K, shots) ==
    IF K = {} THEN (IF shots = 0 THEN {{}} ELSE {})
    ELSE LET k == CHOOSE k \in K : TRUE
         IN  UNION {{{<<k, c>>} \cup t : t \in Tallies(K \ {k}, shots - c)} : c \in 1..shots}

\* what simulator.run(...).result().get_counts() can be
GetCounts(c, shots) ==
    UNION {Tallies(K, shots) : K \in (SUBSET Outcomes(c)) \ {{}}}

Keys(cnt) == {kc[1] : kc \in cnt}

-----------------------------------------------------------------------------
(* Binary Shift.ipynb: create_shift_circuit(input_bits, direction) *)

ShiftAlphabet == {"0", "1", "a"}

Directions == {"right", "left", "up", "Right"}

RECURSIVE InitGatesNonZero(_, _)
InitGatesNonZero(rev, k) ==
    IF k > Len(rev) THEN <<>>
    ELSE (IF rev[k] # "0" THEN <<Gate("x", <<k - 1>>)>> ELSE <<>>)
             \o InitGatesNonZero(rev, k + 1)

\* the qubits the initialisation loop flips, in loop order
RECURSIVE InitGates(_, _)
InitGates(rev, k) ==
    IF k > Len(rev) THEN <<>>
    ELSE (IF rev[k] = "1" THEN <<Gate("x", <<k - 1>>)>> ELSE <<>>) \o InitGates(rev, k + 1)

ShiftGatesSameOrder(d) ==
    <<Gate("swap", <<0, 1>>), Gate("swap", <<1, 2>>), Gate("swap", <<2, 3>>)>>

ShiftGatesShort(d) ==
    IF d = "right"
        THEN <<Gate("swap", <<0, 1>>), Gate("swap", <<1, 2>>)>>
        ELSE <<Gate("swap", <<2, 3>>), Gate("swap", <<1, 2>>), Gate("swap", <<0, 1>>)>>

ShiftGates(d) ==
    IF d = "right"
        THEN <<Gate("swap", <<0, 1>>), Gate("swap", <<1, 2>>), Gate("swap", <<2, 3>>)>>
        ELSE <<Gate("swap", <<2, 3>>), Gate("swap", <<1, 2>>), Gate("swap", <<0, 1>>)>>

MeasureAllGates(nq) == [k \in 1..nq |-> [g |-> "measure", q |-> <<k - 1, k - 1>>, p |-> <<>>]]

InitShift ==
    /\ pc = "shift_init"
    /\ input_bits \in StringsUpTo(ShiftAlphabet, MaxInputLen)
    /\ direction \in Directions
    /\ shown = <<>>
    /\ qc = QuantumCircuit(Width, 0)
    /\ err = ""
    /\ result = {}
    /\ counts = {}
    /\ n = 0 /\ input_state = <<>> /\ calls = <<>> /\ i = 0 /\ j = 0
    /\ secret_string = <<>> /\ oracle = EmptyCircuit /\ query = NoQuery
    /\ IdleBB84 /\ IdleQKNN /\ IdleQPE

\* lines 47-49: the X gates; qc.x(i) with i outside the 4 qubits raises
ShiftInitBits ==
    /\ pc = "shift_init"
    /\ LET gates == InitGates(Reversed(input_bits), 1)
           bad == {k \in 1..Len(gates) : gates[k].q[1] >= Width}
       IN  IF bad = {}
              THEN /\ qc' = AppendOps(qc, gates)
                   /\ pc' = "shift_dir"
                   /\ err' = err
              ELSE /\ qc' = AppendOps(qc, SubSeq(gates, 1, Min(bad) - 1))
                   /\ pc' = "raised"
                   /\ err' = "CircuitError"
    /\ UNCHANGED <<bb84Vars, qknnVars, qpeVars,
                   result, counts, shiftVars, qftVars, i, j, bvVars>>

ShiftApplyDefaultsToLeft ==
    /\ pc = "shift_dir"
    /\ qc' = AppendOps(qc, ShiftGates(direction))
    /\ pc' = "shift_measure"
    /\ UNCHANGED <<bb84Vars, qknnVars, qpeVars,
                   err, result, counts, shiftVars, qftVars, i, j, bvVars>>

\* lines 52-61: the swaps of the direction, or the ValueError
ShiftApply ==
    /\ pc = "shift_dir"
    /\ IF direction \in {"right", "left"}
          THEN /\ qc' = AppendOps(qc, ShiftGates(direction))
               /\ pc' = "shift_measure"
               /\ err' = err
          ELSE /\ pc' = "raised"
               /\ err' = "ValueError"
               /\ qc' = qc
    /\ UNCHANGED <<bb84Vars, qknnVars, qpeVars,
                   result, counts, shiftVars, qftVars, i, j, bvVars>>

\* line 64: qc.measure_all()
ShiftMeasureAll ==
    /\ pc = "shift_measure"
    /\ qc' = [AppendOps(qc, MeasureAllGates(qc.nq)) EXCEPT !.nc = qc.nq]
    /\ pc' = "shift_run"
    /\ UNCHANGED <<bb84Vars, qknnVars, qpeVars,
                   err, result, counts, shiftVars, qftVars, i, j, bvVars>>

\* lines 67-70: the simulation
ShiftRun ==
    /\ pc = "shift_run"
    /\ result' \in GetCounts(qc, DefaultShots)
    /\ pc' = "shift_return"
    /\ UNCHANGED <<bb84Vars, qknnVars, qpeVars,
                   qc, err, counts, shiftVars, qftVars, i, j, bvVars>>

\* line 72: return result.get_counts()
ShiftReturn ==
    /\ pc = "shift_return"
    /\ counts' = result
    /\ pc' = "returned"
    /\ UNCHANGED <<bb84Vars, qknnVars, qpeVars,
                   qc, err, result, shiftVars, qftVars, i, j, bvVars>>

\* the code point of an outcome character
Ord(ch) == IF ch = "0" THEN 48 ELSE 49

\* Python's <= on strings
RECURSIVE StrLeq(_, _)
StrLeq(a, b) ==
    IF a = <<>> THEN TRUE
    ELSE IF b = <<>> THEN FALSE
    ELSE IF Ord(Head(a)) # Ord(Head(b)) THEN Ord(Head(a)) < Ord(Head(b))
    ELSE StrLeq(Tail(a), Tail(b))

\* max() of one outcome string: its largest character
MaxOfOutcomeString(cnt) ==
    LET k == CHOOSE k \in Keys(cnt) : TRUE
    IN  <<CHOOSE ch \in {k[x] : x \in 1..Len(k)} :
              \A x \in 1..Len(k) : Ord(k[x]) <= Ord(ch)>>

\* max() of a counts mapping: the largest of its keys
MaxKey(cnt) == CHOOSE k \in Keys(cnt) : \A l \in Keys(cnt) : StrLeq(l, k)

\* display cell: print(... + max(right_shift_result))
ShiftDisplay ==
    /\ pc = "returned"
    /\ shown' = MaxKey(counts)
    /\ pc' = "displayed"
    /\ UNCHANGED <<bb84Vars, qknnVars, qpeVars,
                   qc, err, result, counts, input_bits, direction, qftVars, i, j, bvVars>>

\* the whole circuit create_shift_circuit builds for a valid call
ShiftCircuit(b, d) ==
    LET c0 == AppendOps(QuantumCircuit(Width, 0), InitGates(Reversed(b), 1))
        c1 == AppendOps(c0, ShiftGates(d))
    IN  [AppendOps(c1, MeasureAllGates(Width)) EXCEPT !.nc = Width]

NextShift ==
    \/ ShiftInitBits
    \/ ShiftApply
    \/ ShiftMeasureAll
    \/ ShiftRun
    \/ ShiftReturn
    \/ ShiftDisplay

SpecShift == InitShift /\ [][NextShift]_vars

-----------------------------------------------------------------------------
(* QFT.ipynb: apply_qft(qc, n), apply_inverse_qft(qc, n), test_qft *)

\* test_qft lines 2-6: X on qubit k for every 1 of reversed(input_state)
RECURSIVE PrepareGates(_, _)
PrepareGates(rev, k) ==
    IF k > Len(rev) THEN <<>>
    ELSE (IF rev[k] = 1 THEN <<Gate("x", <<k - 1>>)>> ELSE <<>>) \o PrepareGates(rev, k + 1)

QftPhaseAbsoluteDistance(ii, jj) == CPGate(1, jj, jj, ii)

\* qc.cp(np.pi / (2 ** (j - i)), j, i)
QftPhase(ii, jj) == CPGate(1, jj - ii, jj, ii)

IqftPhasePositive(ii, jj) == CPGate(1, jj - ii, jj, ii)

IqftPhaseHalved(ii, jj) == CPGate(0 - 1, jj - ii + 1, jj, ii)

\* qc.cp(-np.pi / (2 ** (j - i)), j, i)
IqftPhase(ii, jj) == CPGate(0 - 1, jj - ii, jj, ii)

\* qc.swap(i, n - i - 1)
QftSwap(ii, nn) == Gate("swap", <<ii, nn - ii - 1>>)

Enter(fn, at) == Append(calls, [fn |-> fn, lo |-> at, hi |-> 0 - 1])

Leave == [calls EXCEPT ![Len(calls)].hi = Len(qc.ops)]

InitQFT ==
    /\ pc = "qft_prepare"
    /\ n \in 0..MaxN
    /\ input_state \in [1..n -> {0, 1}]
    /\ qc = QuantumCircuit(n, 0)
    /\ calls = <<>>
    /\ i = 0 /\ j = 0
    /\ err = "" /\ result = {} /\ counts = {}
    /\ input_bits = <<>> /\ direction = "" /\ shown = <<>>
    /\ secret_string = <<>> /\ oracle = EmptyCircuit /\ query = NoQuery
    /\ IdleBB84 /\ IdleQKNN /\ IdleQPE

\* test_qft: prepare the basis input, then call apply_qft(qc, n)
QftPrepare ==
    /\ pc = "qft_prepare"
    /\ qc' = AppendOps(qc, PrepareGates(Reversed(input_state), 1))
    /\ calls' = Enter("apply_qft", Len(qc'.ops))
    /\ i' = 0
    /\ pc' = "qft_i"
    /\ UNCHANGED <<bb84Vars, qknnVars, qpeVars,
                   err, result, counts, shiftVars, n, input_state, j, bvVars>>

\* apply_qft: for i in range(n): qc.h(i)
QftH ==
    /\ pc = "qft_i"
    /\ IF i < n
          THEN /\ qc' = AppendOps(qc, <<Gate("h", <<i>>)>>)
               /\ j' = i + 1
               /\ i' = i
               /\ pc' = "qft_j"
          ELSE /\ i' = 0
               /\ pc' = "qft_swap"
               /\ UNCHANGED <<bb84Vars, qknnVars, qpeVars, qc, j>>
    /\ UNCHANGED <<bb84Vars, qknnVars, qpeVars,
                   err, result, counts, shiftVars, qftVars, bvVars>>

\* apply_qft: for j in range(i + 1, n): qc.cp(...)
QftCP ==
    /\ pc = "qft_j"
    /\ IF j < n
          THEN /\ qc' = AppendOps(qc, <<QftPhase(i, j)>>)
               /\ j' = j + 1
               /\ UNCHANGED <<bb84Vars, qknnVars, qpeVars, i, pc>>
          ELSE /\ i' = i + 1
               /\ pc' = "qft_i"
               /\ UNCHANGED <<bb84Vars, qknnVars, qpeVars, qc, j>>
    /\ UNCHANGED <<bb84Vars, qknnVars, qpeVars,
                   err, result, counts, shiftVars, qftVars, bvVars>>

\* apply_qft: for i in range(n // 2): qc.swap(i, n - i - 1); then return
QftSwaps ==
    /\ pc = "qft_swap"
    /\ IF i < n \div 2
          THEN /\ qc' = AppendOps(qc, <<QftSwap(i, n)>>)
               /\ i' = i + 1
               /\ UNCHANGED <<bb84Vars, qknnVars, qpeVars, pc, calls>>
          ELSE /\ calls' = Leave
               /\ pc' = "qft_done"
               /\ UNCHANGED <<bb84Vars, qknnVars, qpeVars, qc, i>>
    /\ UNCHANGED <<bb84Vars, qknnVars, qpeVars,
                   err, result, counts, shiftVars, n, input_state, j, bvVars>>

\* test_qft: qc.measure_all() after apply_qft
QftMeasureAll ==
    /\ pc = "qft_done"
    /\ qc' = [AppendOps(qc, MeasureAllGates(qc.nq)) EXCEPT !.nc = qc.nq]
    /\ pc' = "qft_measured"
    /\ UNCHANGED <<bb84Vars, qknnVars, qpeVars,
                   err, result, counts, shiftVars, qftVars, i, j, bvVars>>

\* apply_inverse_qft(qc, n) called on the circuit apply_qft has extended
IqftCall ==
    /\ pc = "qft_done"
    /\ calls' = Enter("apply_inverse_qft", Len(qc.ops))
    /\ i' = 0
    /\ pc' = "iqft_swap"
    /\ UNCHANGED <<bb84Vars, qknnVars, qpeVars,
                   qc, err, result, counts, shiftVars, n, input_state, j, bvVars>>

\* apply_inverse_qft: for i in range(n // 2): qc.swap(i, n - i - 1)
IqftSwaps ==
    /\ pc = "iqft_swap"
    /\ IF i < n \div 2
          THEN /\ qc' = AppendOps(qc, <<QftSwap(i, n)>>)
               /\ i' = i + 1
               /\ pc' = pc
          ELSE /\ i' = n - 1
               /\ pc' = "iqft_i"
               /\ qc' = qc
    /\ UNCHANGED <<bb84Vars, qknnVars, qpeVars,
                   err, result, counts, shiftVars, qftVars, j, bvVars>>

\* apply_inverse_qft: for i in range(n - 1, -1, -1); return after the loop
IqftOuter ==
    /\ pc = "iqft_i"
    /\ IF i >= 0
          THEN /\ j' = n - 1
               /\ pc' = "iqft_j"
               /\ calls' = calls
          ELSE /\ calls' = Leave
               /\ pc' = "iqft_done"
               /\ j' = j
    /\ UNCHANGED <<bb84Vars, qknnVars, qpeVars,
                   qc, err, result, counts, shiftVars, n, input_state, i, bvVars>>

\* apply_inverse_qft: for j in range(n - 1, i, -1): qc.cp(...); then qc.h(i)
IqftInner ==
    /\ pc = "iqft_j"
    /\ IF j > i
          THEN /\ qc' = AppendOps(qc, <<IqftPhase(i, j)>>)
               /\ j' = j - 1
               /\ UNCHANGED <<bb84Vars, qknnVars, qpeVars, i, pc>>
          ELSE /\ qc' = AppendOps(qc, <<Gate("h", <<i>>)>>)
               /\ i' = i - 1
               /\ pc' = "iqft_i"
               /\ j' = j
    /\ UNCHANGED <<bb84Vars, qknnVars, qpeVars,
                   err, result, counts, shiftVars, qftVars, bvVars>>

NextQFT ==
    \/ QftPrepare
    \/ QftH
    \/ QftCP
    \/ QftSwaps
    \/ QftMeasureAll
    \/ IqftCall
    \/ IqftSwaps
    \/ IqftOuter
    \/ IqftInner

SpecQFT == InitQFT /\ [][NextQFT]_vars

\* the gates a completed call of builder fn appended to qc
Emitted(fn) ==
    LET k == CHOOSE k \in 1..Len(calls) : calls[k].fn = fn
    IN  SubSeq(qc.ops, calls[k].lo + 1, calls[k].hi)

Completed(fn) == \E k \in 1..Len(calls) : calls[k].fn = fn /\ calls[k].hi >= 0

-----------------------------------------------------------------------------
(* Bernstein-Vazirani notebook: create_oracle, bernstein_vazirani, the run *)

SecretAlphabet == {"0", "1", "a"}

ReversedStringForgotten(s) == s

\* reversed_string = secret_string[::-1]
ReversedString(s) == Reversed(s)

OracleGateTargetsInput(ii, nn) == Gate("cx", <<nn, ii>>)

\* oracle.cx(i, n)
OracleGate(ii, nn) == Gate("cx", <<ii, nn>>)

HGates(from, to) == [k \in 1..(to - from + 1) |-> Gate("h", <<from + k - 1>>)]

MeasureGates(nn) == [k \in 1..nn |-> [g |-> "measure", q |-> <<k - 1, k - 1>>, p |-> <<>>]]

BernsteinVaziraniNoAncillaInit(orc) ==
    LET nn == orc.nq - 1
    IN  AppendOps(QuantumCircuit(nn + 1, nn),
                  HGates(0, nn) \o orc.ops \o HGates(0, nn - 1) \o MeasureGates(nn))

\* bernstein_vazirani(oracle): X on the ancilla, H on all qubits, the
\* oracle, H on the input qubits, measurement of the input qubits
BernsteinVazirani(orc) ==
    LET nn == orc.nq - 1
    IN  AppendOps(QuantumCircuit(nn + 1, nn),
                  <<Gate("x", <<nn>>)>> \o HGates(0, nn) \o orc.ops
                      \o HGates(0, nn - 1) \o MeasureGates(nn))

InitBV ==
    /\ pc = "oracle_new"
    /\ secret_string \in StringsUpTo(SecretAlphabet, MaxSecretLen) \ {<<>>}
    /\ oracle = EmptyCircuit
    /\ query = NoQuery
    /\ qc = EmptyCircuit
    /\ i = 0 /\ j = 0
    /\ err = "" /\ result = {} /\ counts = {}
    /\ input_bits = <<>> /\ direction = "" /\ shown = <<>>
    /\ n = 0 /\ input_state = <<>> /\ calls = <<>>
    /\ IdleBB84 /\ IdleQKNN /\ IdleQPE

\* create_oracle: oracle = QuantumCircuit(n + 1)
OracleNew ==
    /\ pc = "oracle_new"
    /\ oracle' = QuantumCircuit(Len(secret_string) + 1, 0)
    /\ i' = 0
    /\ pc' = "oracle_loop"
    /\ UNCHANGED <<bb84Vars, qknnVars, qpeVars,
                   qc, err, result, counts, shiftVars, qftVars, j, secret_string, query>>

\* create_oracle: for i, bit in enumerate(reversed_string); return oracle
OracleLoop ==
    /\ pc = "oracle_loop"
    /\ IF i < Len(secret_string)
          THEN /\ oracle' = IF ReversedString(secret_string)[i + 1] = "1"
                               THEN AppendOps(oracle, <<OracleGate(i, Len(secret_string))>>)
                               ELSE oracle
               /\ i' = i + 1
               /\ pc' = pc
          ELSE /\ pc' = "oracle_done"
               /\ UNCHANGED <<bb84Vars, qknnVars, qpeVars, oracle, i>>
    /\ UNCHANGED <<bb84Vars, qknnVars, qpeVars,
                   qc, err, result, counts, shiftVars, qftVars, j, secret_string, query>>

\* the oracle evaluated on the classical input x with the ancilla at 0
OracleQuery ==
    /\ pc = "oracle_done"
    /\ \E x \in Basis(Len(secret_string)) :
          query' = [x |-> x,
                    out |-> CHOOSE b \in Support(FinalStateFrom(oracle, x)) : TRUE]
    /\ UNCHANGED <<bb84Vars, qknnVars, qpeVars,
                   pc, qc, err, result, counts, shiftVars, qftVars, i, j,
                   secret_string, oracle>>

\* bv_circuit = bernstein_vazirani(oracle)
BvBuild ==
    /\ pc = "oracle_done"
    /\ qc' = BernsteinVazirani(oracle)
    /\ pc' = "bv_run"
    /\ UNCHANGED <<bb84Vars, qknnVars, qpeVars,
                   err, result, counts, shiftVars, qftVars, i, j, bvVars>>

\* job = simulator.run(compiled_circuit, shots=1); result = job.result()
BvRun ==
    /\ pc = "bv_run"
    /\ result' \in GetCounts(qc, BVShots)
    /\ pc' = "bv_counts"
    /\ UNCHANGED <<bb84Vars, qknnVars, qpeVars,
                   qc, err, counts, shiftVars, qftVars, i, j, bvVars>>

\* counts = result.get_counts(bv_circuit)
BvGetCounts ==
    /\ pc = "bv_counts"
    /\ counts' = result
    /\ pc' = "bv_print"
    /\ UNCHANGED <<bb84Vars, qknnVars, qpeVars,
                   qc, err, result, shiftVars, qftVars, i, j, bvVars>>

NextBV ==
    \/ OracleNew
    \/ OracleLoop
    \/ OracleQuery
    \/ BvBuild
    \/ BvRun
    \/ BvGetCounts

SpecBV == InitBV /\ [][NextBV]_vars

-----------------------------------------------------------------------------
(* BB84.ipynb: encode_qubits, measure_qubits, sift_key and the driver cell *)

Bases == {"X", "Z"}

\* encode_qubits, one loop iteration: H if basis X, X if bit 1, H if basis X
EncodeOps(bit, basis) ==
    (IF basis = "X" THEN <<Gate("h", <<0>>)>> ELSE <<>>)
        \o (IF bit = 1 THEN <<Gate("x", <<0>>)>> ELSE <<>>)
        \o (IF basis = "X" THEN <<Gate("h", <<0>>)>> ELSE <<>>)

MeasureOpsWithReset(basis) ==
    (IF basis = "X" THEN <<Gate("h", <<0>>)>> ELSE <<Gate("x", <<0>>), Gate("x", <<0>>)>>)
        \o <<[g |-> "measure", q |-> <<0, 0>>, p |-> <<>>]>>

\* measure_qubits, one loop iteration: H if basis X, then qc.measure(0, 0)
MeasureOps(basis) ==
    (IF basis = "X" THEN <<Gate("h", <<0>>)>> ELSE <<>>)
        \o <<[g |-> "measure", q |-> <<0, 0>>, p |-> <<>>]>>

\* int(key) of a one-character key
IntOfKey(k) == IF k = <<"1">> THEN 1 ELSE 0

ZipLen(seqs) == Min({Len(seqs[k]) : k \in 1..Len(seqs)})

RECURSIVE SiftKeyInverted(_, _, _, _)
SiftKeyInverted(a_bits, b_bits, a_bases, b_bases) ==
    IF ZipLen(<<a_bases, b_bases, a_bits, b_bits>>) = 0 THEN <<>>
    ELSE <<IF a_bases[1] = b_bases[1] THEN 1 ELSE 0>>
            \o SiftKeyInverted(Tail(a_bits), Tail(b_bits), Tail(a_bases), Tail(b_bases))

RECURSIVE SiftKeyOverBases(_, _, _, _)
SiftKeyOverBases(a_bits, b_bits, a_bases, b_bases) ==
    IF ZipLen(<<a_bases, b_bases>>) = 0 THEN <<>>
    ELSE <<IF a_bases[1] = b_bases[1] THEN 0 ELSE 1>>
            \o SiftKeyOverBases(a_bits, b_bits, Tail(a_bases), Tail(b_bases))

\* sift_key: 0 where the bases are equal, 1 where they differ, over the zip
RECURSIVE SiftKey(_, _, _, _)
SiftKey(a_bits, b_bits, a_bases, b_bases) ==
    IF ZipLen(<<a_bases, b_bases, a_bits, b_bits>>) = 0 THEN <<>>
    ELSE <<IF a_bases[1] = b_bases[1] THEN 0 ELSE 1>>
            \o SiftKey(Tail(a_bits), Tail(b_bits), Tail(a_bases), Tail(b_bases))

\* the driver cell: random bits and bases of one common length
InitBB84 ==
    /\ pc = "bb84_encode"
    /\ \E len \in 0..MaxKeyLength :
          /\ alice_bits \in [1..len -> {0, 1}]
          /\ alice_bases \in [1..len -> Bases]
          /\ bob_bases \in [1..len -> Bases]
    /\ qubits = <<>> /\ bob_bits = <<>> /\ sifted_key = <<>>
    /\ i = 0 /\ j = 0
    /\ qc = EmptyCircuit /\ err = "" /\ result = {} /\ counts = {}
    /\ IdleShift /\ IdleQFT /\ IdleBV /\ IdleQKNN /\ IdleQPE

\* encode_qubits: for bit, basis in zip(bits, bases); return qubits
BB84Encode ==
    /\ pc = "bb84_encode"
    /\ IF i < ZipLen(<<alice_bits, alice_bases>>)
          THEN /\ qubits' = Append(qubits,
                              AppendOps(QuantumCircuit(1, 1),
                                        EncodeOps(alice_bits[i + 1], alice_bases[i + 1])))
               /\ i' = i + 1
               /\ pc' = pc
          ELSE /\ i' = 0
               /\ pc' = "bb84_measure"
               /\ qubits' = qubits
    /\ UNCHANGED <<qc, err, result, counts, shiftVars, qftVars, j, bvVars, qknnVars, qpeVars,
                   alice_bits, alice_bases, bob_bases, bob_bits, sifted_key>>

\* measure_qubits: for qc, basis in zip(qubits, bases): H if X, measure
BB84Measure ==
    /\ pc = "bb84_measure"
    /\ IF i < ZipLen(<<qubits, bob_bases>>)
          THEN /\ qubits' = [qubits EXCEPT ![i + 1] = AppendOps(@, MeasureOps(bob_bases[i + 1]))]
               /\ pc' = "bb84_run"
          ELSE /\ pc' = "bb84_sift"
               /\ qubits' = qubits
    /\ UNCHANGED <<qc, err, result, counts, shiftVars, qftVars, i, j, bvVars, qknnVars, qpeVars,
                   alice_bits, alice_bases, bob_bases, bob_bits, sifted_key>>

\* measure_qubits: run the circuit, keep int of the first key of the counts
BB84Run ==
    /\ pc = "bb84_run"
    /\ \E k \in Outcomes(qubits[i + 1]) : bob_bits' = Append(bob_bits, IntOfKey(k))
    /\ i' = i + 1
    /\ pc' = "bb84_measure"
    /\ UNCHANGED <<qc, err, result, counts, shiftVars, qftVars, j, bvVars, qknnVars, qpeVars,
                   alice_bits, alice_bases, bob_bases, qubits, sifted_key>>

\* sifted_key = sift_key(alice_bits, bob_bits, alice_bases, bob_bases)
BB84Sift ==
    /\ pc = "bb84_sift"
    /\ sifted_key' = SiftKey(alice_bits, bob_bits, alice_bases, bob_bases)
    /\ pc' = "bb84_done"
    /\ UNCHANGED <<qc, err, result, counts, shiftVars, qftVars, i, j, bvVars, qknnVars, qpeVars,
                   alice_bits, alice_bases, bob_bases, qubits, bob_bits>>

NextBB84 ==
    \/ BB84Encode
    \/ BB84Measure
    \/ BB84Run
    \/ BB84Sift

SpecBB84 == InitBB84 /\ [][NextBB84]_vars

\* sift_key taken alone: four sequences of any lengths
InitSiftKey ==
    /\ pc = "bb84_sift"
    /\ alice_bits \in UNION {[1..len -> {0, 1}] : len \in 0..MaxKeyLength}
    /\ bob_bits \in UNION {[1..len -> {0, 1}] : len \in 0..MaxKeyLength}
    /\ alice_bases \in UNION {[1..len -> Bases] : len \in 0..MaxKeyLength}
    /\ bob_bases \in UNION {[1..len -> Bases] : len \in 0..MaxKeyLength}
    /\ qubits = <<>> /\ sifted_key = <<>>
    /\ i = 0 /\ j = 0
    /\ qc = EmptyCircuit /\ err = "" /\ result = {} /\ counts = {}
    /\ IdleShift /\ IdleQFT /\ IdleBV /\ IdleQKNN /\ IdleQPE

NextSiftKey == BB84Sift

SpecSiftKey == InitSiftKey /\ [][NextSiftKey]_vars

-----------------------------------------------------------------------------
(* QKNN.ipynb: estimate_distance(vector1, vector2, shots)                  *)
(* The swap-test circuit rotates by arbitrary real angles; its run is      *)
(* modelled by what it can return: any number of '0' outcomes out of       *)
(* shots.  Fractions are pairs <<numerator, denominator>>, denominator     *)
(* positive; the distance is kept in units of 1/Resolution, rounded down.  *)

NaN == 0 - 1

\* the counts mapping with c0 outcomes '0' and shots - c0 outcomes '1'
SwapTestCounts(c0, total) ==
    (IF c0 > 0 THEN {<<(<<"0">>), c0>>} ELSE {})
        \cup (IF total - c0 > 0 THEN {<<(<<"1">>), total - c0>>} ELSE {})

\* counts.get(key, default)
Get(cnt, key, default) ==
    IF \E kc \in cnt : kc[1] = key
        THEN (CHOOSE kc \in cnt : kc[1] = key)[2]
        ELSE default

\* prob_0 = counts.get('0', 0) / shots
Prob0(cnt, total) == <<Get(cnt, <<"0">>, 0), total>>

DistanceSquaredUnscaled(pr) == <<pr[2] - pr[1], pr[2]>>

\* distance_squared = 2 * (1 - prob_0)
DistanceSquared(pr) == <<2 * (pr[2] - pr[1]), pr[2]>>

Max0Missing(fr) == fr

\* max(0, distance_squared)
Max0(fr) == IF fr[1] < 0 THEN <<0, 1>> ELSE fr

ISqrt(v) == CHOOSE r \in 0..v : r * r <= v /\ (r + 1) * (r + 1) > v

\* np.sqrt: nan for a negative argument
Sqrt(fr) ==
    IF fr[1] < 0 THEN NaN
    ELSE ISqrt((fr[1] * Resolution * Resolution) \div fr[2])

\* the value estimate_distance returns when c0 of total outcomes are '0'
DistanceOf(c0, total) ==
    Sqrt(Max0(DistanceSquared(Prob0(SwapTestCounts(c0, total), total))))

InitQKNN ==
    /\ pc = "qknn_run"
    /\ est_shots \in 1..MaxShots
    /\ prob_0 = <<0, 1>> /\ distance_squared = <<0, 1>> /\ distance = 0
    /\ i = 0 /\ j = 0
    /\ qc = EmptyCircuit /\ err = "" /\ result = {} /\ counts = {}
    /\ IdleShift /\ IdleQFT /\ IdleBV /\ IdleBB84 /\ IdleQPE

\* lines 207-214: run the swap test, counts = result.get_counts(circuit)
QknnRun ==
    /\ pc = "qknn_run"
    /\ \E c0 \in 0..est_shots : counts' = SwapTestCounts(c0, est_shots)
    /\ pc' = "qknn_prob"
    /\ UNCHANGED <<qc, err, result, shiftVars, qftVars, i, j, bvVars, bb84Vars, qpeVars,
                   est_shots, prob_0, distance_squared, distance>>

\* line 217
QknnProb ==
    /\ pc = "qknn_prob"
    /\ prob_0' = Prob0(counts, est_shots)
    /\ pc' = "qknn_dsq"
    /\ UNCHANGED <<qc, err, result, counts, shiftVars, qftVars, i, j, bvVars, bb84Vars,
                   qpeVars, est_shots, distance_squared, distance>>

\* line 220
QknnDistanceSquared ==
    /\ pc = "qknn_dsq"
    /\ distance_squared' = DistanceSquared(prob_0)
    /\ pc' = "qknn_sqrt"
    /\ UNCHANGED <<qc, err, result, counts, shiftVars, qftVars, i, j, bvVars, bb84Vars,
                   qpeVars, est_shots, prob_0, distance>>

\* lines 221-223
QknnSqrt ==
    /\ pc = "qknn_sqrt"
    /\ distance' = Sqrt(Max0(distance_squared))
    /\ pc' = "qknn_returned"
    /\ UNCHANGED <<qc, err, result, counts, shiftVars, qftVars, i, j, bvVars, bb84Vars,
                   qpeVars, est_shots, prob_0, distance_squared>>

NextQKNN ==
    \/ QknnRun
    \/ QknnProb
    \/ QknnDistanceSquared
    \/ QknnSqrt

SpecQKNN == InitQKNN /\ [][NextQKNN]_vars

\* lines 220-223 taken as a function of prob_0, for any fraction prob_0
InitDistanceFormula ==
    /\ pc = "qknn_dsq"
    /\ est_shots \in 1..MaxShots
    /\ \E num \in 0..(est_shots + MaxExcess) : prob_0 = <<num, est_shots>>
    /\ distance_squared = <<0, 1>> /\ distance = 0
    /\ i = 0 /\ j = 0
    /\ qc = EmptyCircuit /\ err = "" /\ result = {} /\ counts = {}
    /\ IdleShift /\ IdleQFT /\ IdleBV /\ IdleBB84 /\ IdleQPE

NextDistanceFormula ==
    \/ QknnDistanceSquared
    \/ QknnSqrt

SpecDistanceFormula == InitDistanceFormula /\ [][NextDistanceFormula]_vars

-----------------------------------------------------------------------------
(* part_000, Quantum Phase Estimation: apply_qpe, run_qpe, phase_shift_unitary *)

StateAlphabet == {"0", "1"}

\* the angles theta = pi/2 and theta = pi/4 (the test's)
Thetas == {<<1, 1>>, <<1, 2>>}

\* phase_shift_unitary(theta) appended on the qubits [first, second]: a
\* two-qubit gate whose only content is p(theta) on its qubit 1
UnitaryGate(th, first, second) == [g |-> "unitary", q |-> <<first, second>>, p |-> th]

\* qc.measure(range(n_qubits), range(n_qubits, n_qubits + n_qubits))
QpeMeasureGates(nq) ==
    [k \in 1..nq |-> [g |-> "measure", q |-> <<k - 1, nq + k - 1>>, p |-> <<>>]]

InitQPE ==
    /\ pc = "qpe_new"
    /\ state \in StringsUpTo(StateAlphabet, MaxStateLen) \ {<<>>}
    /\ theta \in Thetas
    /\ qc = EmptyCircuit
    /\ i = 0 /\ j = 0
    /\ err = "" /\ result = {} /\ counts = {}
    /\ IdleShift /\ IdleQFT /\ IdleBV /\ IdleBB84 /\ IdleQKNN

\* run_qpe: n_qubits = len(input_state); apply_qpe: qc = QuantumCircuit(...)
QpeNew ==
    /\ pc = "qpe_new"
    /\ qc' = QuantumCircuit(Len(state), Len(state) + Len(state))
    /\ i' = 0
    /\ pc' = "qpe_x"
    /\ UNCHANGED <<err, result, counts, shiftVars, qftVars, j, bvVars, bb84Vars,
                   qknnVars, qpeVars>>

\* for qubit, bit in enumerate(reversed(state)): if bit == '1': qc.x(qubit)
QpeX ==
    /\ pc = "qpe_x"
    /\ IF i < Len(state)
          THEN /\ qc' = IF Reversed(state)[i + 1] = "1"
                           THEN AppendOps(qc, <<Gate("x", <<i>>)>>)
                           ELSE qc
               /\ i' = i + 1
               /\ pc' = pc
          ELSE /\ i' = 0
               /\ pc' = "qpe_h"
               /\ UNCHANGED qc
    /\ UNCHANGED <<err, result, counts, shiftVars, qftVars, j, bvVars, bb84Vars,
                   qknnVars, qpeVars>>

\* for qubit in range(n_qubits): qc.h(qubit)
QpeH ==
    /\ pc = "qpe_h"
    /\ IF i < Len(state)
          THEN /\ qc' = AppendOps(qc, <<Gate("h", <<i>>)>>)
               /\ i' = i + 1
               /\ pc' = pc
          ELSE /\ i' = 0
               /\ pc' = "qpe_outer"
               /\ UNCHANGED qc
    /\ UNCHANGED <<err, result, counts, shiftVars, qftVars, j, bvVars, bb84Vars,
                   qknnVars, qpeVars>>

\* for i in range(n_qubits):
QpeOuter ==
    /\ pc = "qpe_outer"
    /\ IF i < Len(state)
          THEN /\ j' = i + 1
               /\ pc' = "qpe_inner"
               /\ UNCHANGED i
          ELSE /\ pc' = "qpe_measure"
               /\ UNCHANGED <<i, j>>
    /\ UNCHANGED <<qc, err, result, counts, shiftVars, qftVars, bvVars, bb84Vars,
                   qknnVars, qpeVars>>

\* for j in range(i + 1, n_qubits): qc.append(unitary, [j, i])
QpeInner ==
    /\ pc = "qpe_inner"
    /\ IF j < Len(state)
          THEN /\ qc' = AppendOps(qc, <<UnitaryGate(theta, j, i)>>)
               /\ j' = j + 1
               /\ pc' = pc
               /\ UNCHANGED i
          ELSE /\ i' = i + 1
               /\ pc' = "qpe_outer"
               /\ UNCHANGED <<qc, j>>
    /\ UNCHANGED <<err, result, counts, shiftVars, qftVars, bvVars, bb84Vars,
                   qknnVars, qpeVars>>

\* qc.measure(...); return qc
QpeMeasure ==
    /\ pc = "qpe_measure"
    /\ qc' = AppendOps(qc, QpeMeasureGates(Len(state)))
    /\ pc' = "qpe_run"
    /\ UNCHANGED <<err, result, counts, shiftVars, qftVars, i, j, bvVars, bb84Vars,
                   qknnVars, qpeVars>>

\* job = simulator.run(compiled_circuit); result = job.result()
QpeRun ==
    /\ pc = "qpe_run"
    /\ result' \in GetCounts(qc, QpeShots)
    /\ pc' = "qpe_counts"
    /\ UNCHANGED <<qc, err, counts, shiftVars, qftVars, i, j, bvVars, bb84Vars,
                   qknnVars, qpeVars>>

\* counts = result.get_counts(); return counts
QpeGetCounts ==
    /\ pc = "qpe_counts"
    /\ counts' = result
    /\ pc' = "qpe_returned"
    /\ UNCHANGED <<qc, err, result, shiftVars, qftVars, i, j, bvVars, bb84Vars,
                   qknnVars, qpeVars>>

NextQPE ==
    \/ QpeNew
    \/ QpeX
    \/ QpeH
    \/ QpeOuter
    \/ QpeInner
    \/ QpeMeasure
    \/ QpeRun
    \/ QpeGetCounts

SpecQPE == InitQPE /\ [][NextQPE]_vars

-----------------------------------------------------------------------------
(* All the notebooks: a run of the repository is a run of one of them *)

InitAll ==
    \/ InitShift
    \/ InitQFT
    \/ InitBV
    \/ InitBB84
    \/ InitQKNN
    \/ InitQPE

NextAll ==
    \/ NextShift
    \/ NextQFT
    \/ NextBV
    \/ NextBB84
    \/ NextQKNN
    \/ NextQPE

SpecAll == InitAll /\ [][NextAll]_vars

\* encode_qubits has returned the list qubits
EncodeReturned == pc \in {"bb84_measure", "bb84_run", "bb84_sift", "bb84_done"}

\* create_oracle has returned oracle
OracleReturned == pc \in {"oracle_done", "bv_run", "bv_counts", "bv_print"}

\* bernstein_vazirani or apply_qpe has returned qc
CircuitReturned ==
    pc \in {"bv_run", "bv_counts", "bv_print", "qpe_run", "qpe_counts", "qpe_returned"}

-----------------------------------------------------------------------------
(* Claims about Binary Shift.ipynb *)

BitStrings(len) == [1..len -> {"0", "1"}]

RotateRight(b) == <<b[Len(b)]>> \o SubSeq(b, 1, Len(b) - 1)

RotateLeft(b) == SubSeq(b, 2, Len(b)) \o <<b[1]>>

Rotate(b, d) == IF d = "right" THEN RotateRight(b) ELSE RotateLeft(b)

Opposite(d) == IF d = "right" THEN "left" ELSE "right"

ValidCall == input_bits \in BitStrings(Width) /\ direction \in {"right", "left"}

C2_ShiftRoundTrip ==
    (pc = "returned" /\ ValidCall) =>
        \A k \in Keys(counts) :
            Outcomes(ShiftCircuit(k, Opposite(direction))) = {input_bits}

C2_Witness ==
    /\ pc = "returned"
    /\ ValidCall
    /\ direction = "right"
    /\ input_bits = <<"0", "1", "1", "0">>
    /\ Keys(counts) = {<<"0", "0", "1", "1">>}

C4_DocumentedExampleOutput ==
    (pc = "returned" /\ input_bits = <<"1", "0", "1", "1">>) =>
        /\ direction = "right" => Keys(counts) = {<<"0", "1", "0", "1">>}
        /\ direction = "left" => Keys(counts) = {<<"0", "1", "1", "1">>}

\* C5: with a direction other than "right" and "left" (and a valid width-4
\* input) the call fails with the ValueError and never defaults to a
\* shift: no swap is applied, no measurement is appended, the simulator is
\* never run and no counts mapping is returned.
C5_InvalidDirectionFails ==
    (input_bits \in BitStrings(Width) /\ direction \notin {"right", "left"}) =>
        /\ \A k \in 1..Len(qc.ops) : qc.ops[k].g \notin {"swap", "measure"}
        /\ qc.nc = 0
        /\ result = {}
        /\ counts = {}
        /\ pc \in {"shift_init", "shift_dir", "raised"}
        /\ pc = "raised" => err = "ValueError"
        /\ pc # "raised" => err = ""

C5_Witness ==
    /\ pc = "raised"
    /\ err = "ValueError"
    /\ direction = "Right"
    /\ input_bits = <<"1", "0", "1", "1">>
    /\ qc.ops = <<Gate("x", <<0>>), Gate("x", <<1>>), Gate("x", <<3>>)>>

-----------------------------------------------------------------------------
(* Claims about QFT.ipynb *)

\* the basis index of input_state: its k-th element sits on qubit n - k
RECURSIVE IndexOf(_, _)
IndexOf(st, k) ==
    IF k > Len(st) THEN 0 ELSE st[k] * 2 ^ (Len(st) - k) + IndexOf(st, k + 1)

\* C6: for every n within the bound and every computational-basis input
\* on n qubits, apply_qft followed by apply_inverse_qft on the same qubits
\* reproduces that input: the only basis state left with a non-zero
\* amplitude is the input.
C6_QftThenInverseIsIdentity ==
    pc = "iqft_done" =>
        Support(FinalState(qc)) = {IndexOf(input_state, 1)}

C6_Witness ==
    /\ pc = "iqft_done"
    /\ n = 3
    /\ input_state = <<1, 0, 1>>
    /\ Completed("apply_qft")
    /\ Completed("apply_inverse_qft")
    /\ Support(FinalState(qc)) = {IndexOf(input_state, 1)}

Positions(ops, gate) == {k \in 1..Len(ops) : ops[k] = gate}

IsSwapGate(gate) == gate.g = "swap"

IsLadderGate(gate) == gate.g # "swap"

\* C7: apply_qft(qc, n) emits, for each position i in increasing order,
\* one H on i followed by one controlled-phase of angle pi/2^(j-i) between
\* j and i for every later position j and for no other pair; every
\* controlled-phase controlled by j comes before the H on j; after all of
\* these come the swaps of i with n-1-i for i < n div 2, which reverse the
\* qubit ordering.
C7_QftGateSequence ==
    Completed("apply_qft") =>
        LET F == Emitted("apply_qft")
            ladder == n + (n * (n - 1)) \div 2
            HAt(q) == Positions(F, Gate("h", <<q>>))
            CPAt(a, b) == {k \in 1..Len(F) : F[k].g = "cp" /\ F[k].q = <<b, a>>}
        IN  /\ Len(F) = ladder + n \div 2
            /\ \A k \in 1..Len(F) : F[k].g \in {"h", "cp", "swap"}
            /\ \A a \in 0..(n - 1) : Cardinality(HAt(a)) = 1
            /\ \A a, b \in 0..(n - 1) :
                  a < b => \A k \in HAt(a), l \in HAt(b) : k < l
            /\ \A k \in 1..Len(F) :
                  F[k].g = "cp" => /\ F[k].q[2] \in 0..(n - 1)
                                   /\ F[k].q[1] \in (F[k].q[2] + 1)..(n - 1)
            /\ \A a, b \in 0..(n - 1) :
                  a < b =>
                     /\ Cardinality(CPAt(a, b)) = 1
                     /\ \A k \in CPAt(a, b) :
                           /\ F[k].p = <<1, b - a>>
                           /\ \A h \in HAt(a) : h < k
                           /\ \A h \in HAt(b) : k < h
                           /\ \A h \in HAt(a + 1) : k < h
            /\ \A k \in 1..Len(F) : F[k].g = "swap" <=> k > ladder
            /\ \A a \in 0..(n \div 2 - 1) :
                  F[ladder + a + 1] = Gate("swap", <<a, n - 1 - a>>)
            /\ \A b \in Basis(n) :
                  \A q \in 0..(n - 1) :
                     Bit(CHOOSE r \in Support(ApplyOps(BasisState(n, b),
                                                       SelectSeq(F, IsSwapGate), 1)) : TRUE,
                         q) = Bit(b, n - 1 - q)

C7_Witness ==
    /\ pc = "qft_done"
    /\ n = 3
    /\ Completed("apply_qft")
    /\ Emitted("apply_qft") = <<Gate("h", <<0>>), CPGate(1, 1, 1, 0), CPGate(1, 2, 2, 0),
                                Gate("h", <<1>>), CPGate(1, 1, 2, 1),
                                Gate("h", <<2>>), Gate("swap", <<0, 2>>)>>

Negated(gate) == IF gate.g = "cp" THEN [gate EXCEPT !.p = <<0 - gate.p[1], gate.p[2]>>] ELSE gate

\* C8: apply_inverse_qft(qc, n) emits the order-reversing swaps first and
\* then exactly the H and controlled-phase gates of apply_qft(qc, n) in
\* reverse emission order, on the same qubit pairs, every controlled-phase
\* angle negated.
C8_InverseMirrorsForward ==
    Completed("apply_inverse_qft") =>
        LET F == Emitted("apply_qft")
            I == Emitted("apply_inverse_qft")
            FL == SelectSeq(F, IsLadderGate)
            m == n \div 2
        IN  /\ Len(I) = m + Len(FL)
            /\ \A a \in 0..(m - 1) : I[a + 1] = Gate("swap", <<a, n - 1 - a>>)
            /\ SubSeq(I, 1, m) = SelectSeq(F, IsSwapGate)
            /\ \A k \in 1..Len(FL) : I[m + k] = Negated(FL[Len(FL) + 1 - k])

C8_Witness ==
    /\ pc = "iqft_done"
    /\ n = 3
    /\ Completed("apply_inverse_qft")
    /\ Emitted("apply_inverse_qft")[1] = Gate("swap", <<0, n - 1>>)
    /\ Emitted("apply_inverse_qft")[n \div 2 + 1] = Gate("h", <<n - 1>>)
    /\ Emitted("apply_inverse_qft")[n \div 2 + 2] = CPGate(0 - 1, 1, n - 1, n - 2)

-----------------------------------------------------------------------------
(* Claims about the Bernstein-Vazirani notebook *)

\* popcount(x AND s) mod 2, bit k of s being its k-th character from the right
DotParity(x, s) ==
    Cardinality({k \in 0..(Len(s) - 1) : Bit(x, k) = 1 /\ s[Len(s) - k] = "1"}) % 2

\* C9: for every secret string s over {0,1} within the bound and every
\* classical input x, the oracle of create_oracle(s) flips the ancilla
\* qubit n exactly when popcount(x AND s) mod 2 = 1, input qubit i being
\* paired with the i-th character of s counted from the right.
C9_OracleComputesDotProduct ==
    query.x >= 0 =>
        Bit(query.out, Len(secret_string)) = DotParity(query.x, secret_string)

C9_Witness ==
    /\ pc = "oracle_done"
    /\ secret_string = <<"1", "1", "0">>
    /\ oracle.ops = <<Gate("cx", <<1, 3>>), Gate("cx", <<2, 3>>)>>
    /\ query.x = 5
    /\ Bit(query.out, 3) = 1

-----------------------------------------------------------------------------
(* Claims about BB84.ipynb *)

Matching == {k \in 1..Len(alice_bases) : alice_bases[k] = bob_bases[k]}

\* C12: the sifted key retains, for every position where the bases match,
\* the corresponding bit value, and contains nothing for the positions
\* where the bases differ.
C12_SiftRetainsBits ==
    pc = "bb84_done" =>
        /\ Len(sifted_key) = Cardinality(Matching)
        /\ \A m \in 1..Len(sifted_key) :
              \E k \in Matching :
                 /\ Cardinality({l \in Matching : l <= k}) = m
                 /\ sifted_key[m] \in {alice_bits[k], bob_bits[k]}

\* C13: wherever Bob's basis equals Alice's (both Z or both X), for both
\* bit values, the bit Bob measures equals the bit Alice encoded.
C13_MatchingBasesAgree ==
    \A k \in 1..Len(bob_bits) :
        alice_bases[k] = bob_bases[k] => bob_bits[k] = alice_bits[k]

\* C18: encode_qubits encodes the bit in the basis: with basis Z the
\* prepared state is |0> for bit 0 and |1> for bit 1, with basis X it is
\* |+> for bit 0 and |-> for bit 1, two different states.
C18_EncodesBitInBasis ==
    pc = "bb84_encode" =>
        \A k \in 1..Len(qubits) :
            LET psi == FinalState(qubits[k])
            IN  /\ alice_bases[k] = "Z" => Support(psi) = {alice_bits[k]}
                /\ alice_bases[k] = "X" =>
                      /\ psi[0] # AmpZero
                      /\ alice_bits[k] = 0 => psi[1] = psi[0]
                      /\ alice_bits[k] = 1 => psi[1] = AmpSub(AmpZero, psi[0])

\* C19: wherever Bob's basis differs from Alice's, for both bit values,
\* Bob's measurement is random: both outcomes 0 and 1 are possible.
C19_DifferingBasesRandom ==
    (pc = "bb84_run" /\ alice_bases[i + 1] # bob_bases[i + 1]) =>
        Outcomes(qubits[i + 1]) = {<<"0">>, <<"1">>}

-----------------------------------------------------------------------------
(* Claims about QKNN.ipynb *)

\* d is sqrt(fr) in units of 1/Resolution, rounded down
IsRootOf(d, fr) ==
    /\ d >= 0
    /\ d * d * fr[2] <= fr[1] * Resolution * Resolution
    /\ (d + 1) * (d + 1) * fr[2] > fr[1] * Resolution * Resolution

\* C14: the distance estimate_distance computes from p = c/shots is
\* sqrt(max(0, 2*(1-p))): exactly 0 when p = 1, of square 2 when p = 0, and
\* non-increasing in the count c of '0' outcomes.
C14_DistanceFormula ==
    pc = "qknn_returned" =>
        LET c == prob_0[1]
        IN  /\ prob_0 = <<Get(counts, <<"0">>, 0), est_shots>>
            /\ IsRootOf(distance, <<2 * (est_shots - c), est_shots>>)
            /\ c = est_shots => distance = 0
            /\ c = 0 => distance_squared[1] = 2 * distance_squared[2]
                        /\ IsRootOf(distance, <<2, 1>>)
            /\ \A c2 \in 0..est_shots :
                  /\ c2 >= c => DistanceOf(c2, est_shots) <= distance
                  /\ c2 <= c => DistanceOf(c2, est_shots) >= distance

C14_Witness ==
    /\ pc = "qknn_returned"
    /\ est_shots = 4
    /\ counts = {<<(<<"0">>), 1>>, <<(<<"1">>), 3>>}
    /\ prob_0 = <<1, 4>>
    /\ distance_squared = <<6, 4>>
    /\ distance > Resolution
    /\ distance < DistanceOf(0, 4)

\* C15: estimate_distance's formula never takes the square root of a
\* negative number: whenever 2*(1-p) is negative (p > 1) the radicand is
\* clamped to 0 and the distance is 0, not a domain error.
C15_NegativeRadicandClamped ==
    pc = "qknn_returned" =>
        /\ distance # NaN
        /\ distance_squared[1] < 0 => distance = 0

C15_Witness ==
    /\ pc = "qknn_returned"
    /\ prob_0 = <<5, 4>>
    /\ distance_squared = <<0 - 2, 4>>
    /\ distance = 0

-----------------------------------------------------------------------------
(* Claims about Quantum Phase Estimation (part_000) *)

\* the qubits circuit c measures
MeasuredQubits(c) == {c.ops[k].q[1] : k \in {l \in 1..Len(c.ops) : c.ops[l].g = "measure"}}

\* C16: every outcome bit string in the counts an executed circuit returns
\* is as wide as the number of qubits that circuit measures (here for the
\* circuit run_qpe executes).
C16_KeyWidthIsMeasuredQubits ==
    pc = "qpe_returned" =>
        \A k \in Keys(counts) : Len(k) = Cardinality(MeasuredQubits(qc))

\* C20: the circuit apply_qpe builds for the test run_qpe("0",
\* phase_shift_unitary(pi/4)) contains at least one application of the
\* unitary.
C20_TestAppliesUnitary ==
    (pc = "qpe_returned" /\ state = <<"0">> /\ theta = <<1, 2>>) =>
        \E k \in 1..Len(qc.ops) : qc.ops[k].g = "unitary"

-----------------------------------------------------------------------------
(* Claims about circuits after their builder returned *)

\* the operations circuit new holds beyond those of circuit old
Appended(old, new) == SubSeq(new.ops, Len(old.ops) + 1, Len(new.ops))

\* circuit new is circuit old with operations appended, none changed
Extends(old, new) ==
    /\ new.nq = old.nq /\ new.nc = old.nc
    /\ Len(new.ops) >= Len(old.ops)
    /\ SubSeq(new.ops, 1, Len(old.ops)) = old.ops

OnlyMeasurements(ops) == \A k \in 1..Len(ops) : ops[k].g = "measure"

\* C17 as stated: once a builder has returned a circuit, the only
\* operations appended to it afterwards are measurement operations, in
\* every notebook, BB84's encode_qubits / measure_qubits included.
C17_OnlyMeasurementsAppended ==
    [][/\ EncodeReturned =>
            \A k \in 1..Len(qubits) :
                /\ Extends(qubits[k], qubits'[k])
                /\ OnlyMeasurements(Appended(qubits[k], qubits'[k]))
       /\ OracleReturned =>
            /\ Extends(oracle, oracle')
            /\ OnlyMeasurements(Appended(oracle, oracle'))
       /\ CircuitReturned =>
            /\ Extends(qc, qc')
            /\ OnlyMeasurements(Appended(qc, qc'))]_vars

\* C17, amended: once a builder has returned a circuit, the only
\* operations appended to it afterwards are measurement operations, except
\* that BB84's measure_qubits appends one Hadamard on qubit 0 immediately
\* before the measurement of a circuit whose measuring basis is 'X'.
C17_OnlyMeasurementsOrBasisChange ==
    [][/\ EncodeReturned =>
            /\ Len(qubits') = Len(qubits)
            /\ \A k \in 1..Len(qubits) :
                /\ Extends(qubits[k], qubits'[k])
                /\ \/ OnlyMeasurements(Appended(qubits[k], qubits'[k]))
                   \/ /\ bob_bases[k] = "X"
                      /\ Len(Appended(qubits[k], qubits'[k])) = 2
                      /\ Appended(qubits[k], qubits'[k])[1] = Gate("h", <<0>>)
                      /\ Appended(qubits[k], qubits'[k])[2].g = "measure"
       /\ OracleReturned =>
            /\ Extends(oracle, oracle')
            /\ OnlyMeasurements(Appended(oracle, oracle'))
       /\ CircuitReturned =>
            /\ Extends(qc, qc')
            /\ OnlyMeasurements(Appended(qc, qc'))]_vars

\* measure_qubits has extended the circuit encode_qubits returned for
\* bit 1 in basis Z by a Hadamard and a measurement
C17_Witness ==
    /\ pc = "bb84_run"
    /\ alice_bits = <<1>> /\ alice_bases = <<"Z">> /\ bob_bases = <<"X">>
    /\ qubits[1].ops = <<Gate("x", <<0>>), Gate("h", <<0>>),
                         [g |-> "measure", q |-> <<0, 0>>, p |-> <<>>]>>

-----------------------------------------------------------------------------
(* Claims about the unitary applications of apply_qpe *)

\* the state with equal amplitudes on basis state b and on b with qubit t flipped
PlusOnTarget(nq, b, t) ==
    [x \in Basis(nq) |-> IF x \in {b, Flip(b, t)} THEN AmpOne ELSE AmpZero]

\* phi is psi times a global phase
SameUpToPhase(psi, phi) ==
    \E e \in 0..(2 * PhaseDim - 1) : phi = [x \in DOMAIN psi |-> AmpMulZeta(psi[x], e)]

\* C21: every application of the unitary in apply_qpe is controlled: with
\* the controlling qubit (the first of the two it is appended on) at 0, the
\* target qubit (the one the operator acts on) is left as it was.
C21_UnitaryIsControlled ==
    \A k \in 1..Len(qc.ops) :
        qc.ops[k].g = "unitary" =>
            \A b \in Basis(qc.nq) :
                Bit(b, qc.ops[k].q[1]) = 0 =>
                    SameUpToPhase(PlusOnTarget(qc.nq, b, qc.ops[k].q[2]),
                                  ApplyGate(PlusOnTarget(qc.nq, b, qc.ops[k].q[2]),
                                            qc.ops[k]))

-----------------------------------------------------------------------------
(* Claims about the display cell of Binary Shift.ipynb *)

\* C22: for every valid call of create_shift_circuit, the string max()
\* selects from the returned counts is the most frequent outcome of that
\* mapping, the mapping holding a single outcome.
C22_MaxIsMostFrequent ==
    (pc = "displayed" /\ ValidCall) =>
        /\ Cardinality(Keys(counts)) = 1
        /\ shown \in Keys(counts)
        /\ \A kc \in counts : kc[2] <= Get(counts, shown, 0)

C22_Witness ==
    /\ pc = "displayed"
    /\ input_bits = <<"1", "0", "1", "1">> /\ direction = "right"
    /\ counts = {<<(<<"1", "1", "0", "1">>), DefaultShots>>}
    /\ shown = <<"1", "1", "0", "1">>

-----------------------------------------------------------------------------
(* Claims about the gates of create_oracle *)

\* the input qubits create_oracle pairs with a '1' character of s
OnePositions(s) == {k \in 0..(Len(s) - 1) : s[Len(s) - k] = "1"}

\* C23: create_oracle(s) emits exactly one CNOT for each '1' character of
\* s and none for any other character, each with a distinct input qubit as
\* control and the ancilla qubit n as target; so on every classical input
\* the oracle leaves the input qubits 0..n-1 as they were.
C23_OracleOnlyTargetsAncilla ==
    pc \in {"oracle_done", "bv_run", "bv_counts", "bv_print"} =>
        LET nn == Len(secret_string)
        IN  /\ oracle.nq = nn + 1
            /\ Len(oracle.ops) = Cardinality(OnePositions(secret_string))
            /\ {oracle.ops[k].q[1] : k \in 1..Len(oracle.ops)} = OnePositions(secret_string)
            /\ \A k \in 1..Len(oracle.ops) :
                  oracle.ops[k].g = "cx" /\ oracle.ops[k].q[2] = nn
            /\ \A x \in Basis(nn + 1) :
                  \A y \in Support(FinalStateFrom(oracle, x)) : y % (2 ^ nn) = x % (2 ^ nn)
            /\ query.x >= 0 => query.out % (2 ^ nn) = query.x

C23_Witness ==
    /\ pc = "oracle_done"
    /\ secret_string = <<"1", "a", "1">>
    /\ oracle.ops = <<Gate("cx", <<0, 3>>), Gate("cx", <<2, 3>>)>>
    /\ query.x = 5
    /\ query.out = 5

-----------------------------------------------------------------------------
(* Claims about unvalidated arguments *)

\* b read as Width bits: characters other than '1' as 0, zeros in front
ZeroExtended(b) ==
    [k \in 1..Width |->
        IF k > Width - Len(b) /\ b[k - (Width - Len(b))] = "1" THEN "1" ELSE "0"]

=============================================================================
